---- MODULE Spec2Model ----
(***************************************************************************)
(* Model of backend/app.py: the RAG chat backend.                          *)
(*                                                                         *)
(* One client connection is followed from its opening to its end: either   *)
(* a WebSocket session on /ws/chat (websocket_chat) or one streamed        *)
(* request on /chat/rag/stream (chat_rag_stream.generate).  Text is a      *)
(* sequence of characters; the literal parts of the prompt templates are   *)
(* single symbols of that alphabet.                                        *)
(***************************************************************************)
EXTENDS Integers, Sequences, FiniteSets, TLC

VARIABLES
    endpoint,       \* "none" | "ws" | "sse": the route the client connected to
    pc,             \* position of the handler
    connected,      \* the client side of the transport is still open
    inbox,          \* inbound WebSocket messages not yet received by the handler
    sends,          \* number of messages the client has sent on this connection
    collection,     \* the ChromaDB collection: sequence of stored documents
    history,        \* websocket_chat: history
    message,        \* websocket_chat: message / generate: request.message
    mode,           \* websocket_chat: mode
    relevant_docs,  \* result of search_documents
    messages,       \* the message list handed to ollama.chat
    full_response,  \* websocket_chat: full_response
    events,         \* outbound events delivered to the client, in order
    stream,         \* chunks the ollama.chat stream has still to produce
    pulled,         \* chunks taken from the ollama.chat stream in this turn
    calls,          \* external calls made in this turn
    received,       \* message and mode of every turn started, in order
    histAtStart,    \* history as it was when the current turn started
    error,          \* the exception that left the handler uncaught, or "none"
    docreqs,        \* the /documents requests received, each with its handler's state
    loop,           \* the /documents handler running on the event loop, or 0
    uuids,          \* number of ids drawn from uuid.uuid4 so far
    sess            \* concurrent WebSocket sessions, by connection

\* the state of the connection that is followed
chatVars == <<endpoint, pc, connected, inbox, sends, history, message, mode,
              relevant_docs, messages, full_response, events, stream, pulled, calls,
              received, histAtStart, error>>

\* the state of the /documents handlers and of the concurrent sessions
storeVars == <<docreqs, loop, uuids, sess>>

vars == <<chatVars, collection, storeVars>>

----------------------------------------------------------------------------
(* Bounds of the model *)

MaxK == 4
MaxSends == 2

(* Program constants *)

N_RESULTS == 3
PreviewLen == 100

SYSTEM_PROMPT == <<"SYSTEM_PROMPT">>

----------------------------------------------------------------------------
(* Text helpers *)

Min(a, b) == IF a < b THEN a ELSE b

RECURSIVE Concat(_)
Concat(ss) == IF ss = <<>> THEN <<>> ELSE Head(ss) \o Concat(Tail(ss))

RECURSIVE Join(_, _)
Join(sep, ss) ==
    IF ss = <<>> THEN <<>>
    ELSE IF Len(ss) = 1 THEN ss[1]
    ELSE ss[1] \o sep \o Join(sep, Tail(ss))

Preview(content) == SubSeq(content, 1, Min(Len(content), PreviewLen)) \o <<"...">>

----------------------------------------------------------------------------
(* External collaborators: embedding model and vector store *)

CharCode(c) == IF c = "q" THEN 1 ELSE IF c = "r" THEN 3 ELSE 7

RECURSIVE Embed(_)
Embed(text) == IF text = <<>> THEN 0 ELSE CharCode(Head(text)) + Embed(Tail(text))

Distance(u, v) == (u - v) * (u - v)

Doc(i, c, s) == [id |-> i, content |-> c, source |-> s, embedding |-> Embed(c)]

Collections ==
    { <<>>,
      << Doc("d1", <<"q">>, "a.md") >>,
      << Doc("d1", <<"q">>, "a.md"), Doc("d2", <<"r">>, "b.md"),
         Doc("d3", <<"q", "r">>, "c.md"), Doc("d4", <<"q", "q", "r">>, "d.md") >> }

\* collection.query: the n nearest records, nearest first; ties in any order
Rankings(coll, qe, n) ==
    LET k == Min(n, Len(coll))
        D(i) == Distance(coll[i].embedding, qe)
    IN { r \in [1..k -> 1..Len(coll)] :
           /\ \A i, j \in 1..k : i < j => r[i] # r[j] /\ D(r[i]) <= D(r[j])
           /\ \A x \in 1..Len(coll) :
                (\A i \in 1..k : r[i] # x) => \A i \in 1..k : D(r[i]) <= D(x) }

\* variant of FormatResults: the result lists are walked from the end
FormatResultsReversed(coll, qe, r) ==
    [i \in 1..Len(r) |->
        [id |-> coll[r[Len(r) + 1 - i]].id, content |-> coll[r[Len(r) + 1 - i]].content,
         source |-> coll[r[Len(r) + 1 - i]].source,
         score |-> Distance(coll[r[Len(r) + 1 - i]].embedding, qe)]]

FormatResults(coll, qe, r) ==
    [i \in 1..Len(r) |->
        [id |-> coll[r[i]].id, content |-> coll[r[i]].content,
         source |-> coll[r[i]].source,
         score |-> Distance(coll[r[i]].embedding, qe)]]

----------------------------------------------------------------------------
(* Inbound WebSocket messages: JSON objects, or text that is no JSON object *)

Requests ==
    { [message |-> <<"q">>, mode |-> "rag"],
      [message |-> <<"r">>, mode |-> "direct"],
      [message |-> <<"r">>],
      [message |-> <<>>, mode |-> "direct"],
      [other |-> <<"x">>],
      [malformed |-> TRUE] }

SseMessages == { <<>>, <<"q">>, <<"r">> }

\* What an ollama.chat stream may produce: the content of each chunk, in order
Streams ==
    { <<>>,
      << <<"a">>, <<"b", "a">> >>,
      << <<"b", "a">>, <<>>, <<"a">> >> }

Get(data, key, default) == IF key \in DOMAIN data THEN data[key] ELSE default

NoCalls == [embed |-> 0, query |-> 0, chat |-> 0]

Turn == Len(received)

Terminal == {"closed", "crashed", "finished"}

\* the connections of the concurrent sessions, none of them open yet
Connections == {"c1", "c2"}

\* the locals of one websocket_chat call, before the connection is accepted
NoSession ==
    [pc |-> "none", history |-> <<>>, message |-> <<>>, mode |-> "unset",
     messages |-> <<>>, full_response |-> <<>>, stream |-> <<>>, turns |-> 0]

NoSessions == [c \in Connections |-> NoSession]

----------------------------------------------------------------------------
(* Prompt construction *)

Context(docs) == Join(<<"\n\n">>, [i \in 1..Len(docs) |-> docs[i].content])

WsRagPrompt(docs, q) ==
    <<"Answer the question based on the following context...Context:">>
      \o Context(docs) \o <<"Question:">> \o q \o <<"Answer:">>

SseRagPrompt(docs, q) ==
    <<"Answer the question based on the following context...Context:">>
      \o Context(docs) \o <<"Question:">> \o q \o <<"\n">> \o <<"Answer:">>

\* variant of WsPrompt: the context wrapper is applied in every mode
WsPromptAlwaysWrapped(md, docs, q) == WsRagPrompt(docs, q)

WsPrompt(md, docs, q) == IF md = "rag" THEN WsRagPrompt(docs, q) ELSE q

\* variant of WsMessages: the history is left out
WsMessagesNoHistory(hist, p) ==
    <<[role |-> "system", content |-> SYSTEM_PROMPT], [role |-> "user", content |-> p]>>

WsMessages(hist, p) ==
    <<[role |-> "system", content |-> SYSTEM_PROMPT]>>
      \o [i \in 1..Len(hist) |-> [role |-> hist[i].role, content |-> hist[i].content]]
      \o <<[role |-> "user", content |-> p]>>

SseChatMessages(p) ==
    <<[role |-> "system", content |-> SYSTEM_PROMPT], [role |-> "user", content |-> p]>>

BuildMessages ==
    IF endpoint = "ws"
    THEN WsMessages(history, WsPrompt(mode, relevant_docs, message))
    ELSE SseChatMessages(SseRagPrompt(relevant_docs, message))

----------------------------------------------------------------------------
(* Outbound events *)

SourcesData(docs) ==
    [i \in 1..Len(docs) |->
        [content |-> Preview(docs[i].content), source |-> docs[i].source,
         score |-> docs[i].score]]

SourcesEvent == [turn |-> Turn, type |-> "sources", data |-> SourcesData(relevant_docs)]

TokenEvent(token) == [turn |-> Turn, type |-> "token", data |-> token]

DoneEvent == [turn |-> Turn, type |-> "done", data |-> <<>>]

\* websocket.send_json / a yield of generate(): the event is delivered, or the
\* transport is gone and the handler is left
Send(ev, next) ==
    IF connected
    THEN /\ events' = Append(events, ev)
         /\ pc' = next
    ELSE /\ events' = events
         /\ pc' = "closed"

----------------------------------------------------------------------------
(* Operations *)

Init ==
    /\ endpoint = "none"
    /\ pc = "none"
    /\ connected = FALSE
    /\ inbox = <<>>
    /\ sends = 0
    /\ collection \in Collections
    /\ history = <<>>
    /\ message = <<>>
    /\ mode = "unset"
    /\ relevant_docs = <<>>
    /\ messages = <<>>
    /\ full_response = <<>>
    /\ events = <<>>
    /\ stream = <<>>
    /\ pulled = <<>>
    /\ calls = NoCalls
    /\ received = <<>>
    /\ histAtStart = <<>>
    /\ error = "none"
    /\ docreqs = <<>>
    /\ loop = 0
    /\ uuids = 0
    /\ sess = NoSessions

\* websocket_chat: accept the connection, start with an empty history
WsConnect ==
    /\ pc = "none"
    /\ endpoint' = "ws"
    /\ connected' = TRUE
    /\ history' = <<>>
    /\ pc' = "receive"
    /\ UNCHANGED <<inbox, sends, collection, message, mode, relevant_docs, messages,
                   full_response, events, stream, pulled, calls, received, histAtStart, error>>
    /\ UNCHANGED storeVars

\* chat_rag_stream: a request arrives and generate() starts
SseRequest(m) ==
    /\ pc = "none"
    /\ endpoint' = "sse"
    /\ connected' = TRUE
    /\ message' = m
    /\ received' = <<[message |-> m, mode |-> "rag"]>>
    /\ pc' = "search"
    /\ UNCHANGED <<inbox, sends, collection, history, mode, relevant_docs, messages,
                   full_response, events, stream, pulled, calls, histAtStart, error>>
    /\ UNCHANGED storeVars

\* the client sends one more message on the open WebSocket
ClientSend(req) ==
    /\ endpoint = "ws"
    /\ connected
    /\ pc \notin Terminal
    /\ sends < MaxSends
    /\ inbox' = Append(inbox, req)
    /\ sends' = sends + 1
    /\ UNCHANGED <<endpoint, pc, connected, collection, history, message, mode,
                   relevant_docs, messages, full_response, events, stream, pulled, calls,
                   received, histAtStart, error>>
    /\ UNCHANGED storeVars

\* the client closes the connection
ClientDisconnect ==
    /\ endpoint # "none"
    /\ connected
    /\ pc \notin Terminal
    /\ connected' = FALSE
    /\ UNCHANGED <<endpoint, pc, inbox, sends, collection, history, message, mode,
                   relevant_docs, messages, full_response, events, stream, pulled, calls,
                   received, histAtStart, error>>
    /\ UNCHANGED storeVars

\* variant of CanReceive: a message is also taken while the stream is running
CanReceiveWhileStreaming == endpoint = "ws" /\ pc \in {"receive", "stream"}

\* the handler is at websocket.receive_json()
CanReceive == endpoint = "ws" /\ pc = "receive"

\* websocket_chat, lines 359-366: take the next inbound message
Receive ==
    /\ CanReceive
    /\ inbox # <<>>
    /\ inbox' = Tail(inbox)
    /\ IF "malformed" \in DOMAIN Head(inbox)
       THEN /\ pc' = "crashed"
            /\ error' = "json"
            /\ UNCHANGED <<message, mode, received, histAtStart, calls>>
       ELSE /\ message' = Get(Head(inbox), "message", <<>>)
            /\ mode' = Get(Head(inbox), "mode", "rag")
            /\ received' = Append(received, [message |-> message', mode |-> mode'])
            /\ histAtStart' = history
            /\ calls' = NoCalls
            /\ pc' = IF mode' = "rag" THEN "search" ELSE "chat"
            /\ error' = error
    /\ UNCHANGED <<endpoint, connected, sends, collection, history, relevant_docs,
                   messages, full_response, events, stream, pulled>>
    /\ UNCHANGED storeVars

\* websocket.receive_json() raises WebSocketDisconnect: the handler returns
ReceiveDisconnect ==
    /\ CanReceive
    /\ inbox = <<>>
    /\ ~connected
    /\ pc' = "closed"
    /\ UNCHANGED <<endpoint, connected, inbox, sends, collection, history, message,
                   mode, relevant_docs, messages, full_response, events, stream, pulled, calls,
                   received, histAtStart, error>>
    /\ UNCHANGED storeVars

\* search_documents: embedding and store query both succeed
SearchOk ==
    /\ pc = "search"
    /\ \E r \in Rankings(collection, Embed(message), N_RESULTS) :
           relevant_docs' = FormatResults(collection, Embed(message), r)
    /\ calls' = [calls EXCEPT !.embed = @ + 1, !.query = @ + 1]
    /\ pc' = "sources"
    /\ UNCHANGED <<endpoint, connected, inbox, sends, collection, history, message,
                   mode, messages, full_response, events, stream, pulled, received,
                   histAtStart, error>>
    /\ UNCHANGED storeVars

\* variant of EmbedFails: the exception is caught and the turn goes on without
\* documents
EmbedFailsSwallowed ==
    /\ pc = "search"
    /\ calls' = [calls EXCEPT !.embed = @ + 1]
    /\ relevant_docs' = <<>>
    /\ pc' = "sources"
    /\ error' = "embedding"
    /\ UNCHANGED <<endpoint, connected, inbox, sends, collection, history, message,
                   mode, messages, full_response, events, stream, pulled, received,
                   histAtStart>>
    /\ UNCHANGED storeVars

\* search_documents: create_embedding raises; nothing catches it
EmbedFails ==
    /\ pc = "search"
    /\ calls' = [calls EXCEPT !.embed = @ + 1]
    /\ pc' = "crashed"
    /\ error' = "embedding"
    /\ UNCHANGED <<endpoint, connected, inbox, sends, collection, history, message,
                   mode, relevant_docs, messages, full_response, events, stream, pulled,
                   received, histAtStart>>
    /\ UNCHANGED storeVars

\* search_documents: collection.query raises; nothing catches it
QueryFails ==
    /\ pc = "search"
    /\ calls' = [calls EXCEPT !.embed = @ + 1, !.query = @ + 1]
    /\ pc' = "crashed"
    /\ error' = "query"
    /\ UNCHANGED <<endpoint, connected, inbox, sends, collection, history, message,
                   mode, relevant_docs, messages, full_response, events, stream, pulled,
                   received, histAtStart>>
    /\ UNCHANGED storeVars

\* variant of SendSources: no sources event when nothing matched
SendSourcesIfAny ==
    /\ pc = "sources"
    /\ IF relevant_docs = <<>>
       THEN pc' = "chat" /\ events' = events
       ELSE Send(SourcesEvent, "chat")
    /\ UNCHANGED <<endpoint, connected, inbox, sends, collection, history, message,
                   mode, relevant_docs, messages, full_response, stream, pulled, calls,
                   received, histAtStart, error>>
    /\ UNCHANGED storeVars

\* the sources event, sent before anything else of the turn
SendSources ==
    /\ pc = "sources"
    /\ Send(SourcesEvent, "chat")
    /\ UNCHANGED <<endpoint, connected, inbox, sends, collection, history, message,
                   mode, relevant_docs, messages, full_response, stream, pulled, calls,
                   received, histAtStart, error>>
    /\ UNCHANGED storeVars

\* build the prompt and the message list, open the ollama.chat stream
StartChat ==
    /\ pc = "chat"
    /\ messages' = BuildMessages
    /\ full_response' = <<>>
    /\ stream' \in Streams
    /\ pulled' = <<>>
    /\ calls' = [calls EXCEPT !.chat = @ + 1]
    /\ pc' = "stream"
    /\ UNCHANGED <<endpoint, connected, inbox, sends, collection, history, message,
                   mode, relevant_docs, events, received, histAtStart, error>>
    /\ UNCHANGED storeVars

\* variant of Forwarded: a chunk of more than one character is not forwarded
ForwardedSingleChar(token) == Len(token) = 1

\* `if token:` - which chunks become token events
Forwarded(token) == token # <<>>

\* variant of Accumulate: `full_response = token`
AccumulateOverwrites(full, token) == token

\* `full_response += token`
Accumulate(full, token) == full \o token

\* one iteration of the `for chunk in ollama.chat(...)` loop
NextChunk ==
    /\ pc = "stream"
    /\ stream # <<>>
    /\ stream' = Tail(stream)
    /\ pulled' = Append(pulled, Head(stream))
    /\ IF Forwarded(Head(stream))
       THEN /\ full_response' = Accumulate(full_response, Head(stream))
            /\ Send(TokenEvent(Head(stream)), "stream")
       ELSE UNCHANGED <<full_response, events, pc>>
    /\ UNCHANGED <<endpoint, connected, inbox, sends, collection, history, message,
                   mode, relevant_docs, messages, calls, received, histAtStart, error>>
    /\ UNCHANGED storeVars

\* variant of StreamFails: the text generated so far is kept in the history
StreamFailsKeepsPartial ==
    /\ pc = "stream"
    /\ pc' = "crashed"
    /\ error' = "generation"
    /\ history' = history \o <<[role |-> "user", content |-> message],
                             [role |-> "assistant", content |-> full_response]>>
    /\ UNCHANGED <<endpoint, connected, inbox, sends, collection, message, mode,
                   relevant_docs, messages, full_response, events, stream, pulled, calls,
                   received, histAtStart>>
    /\ UNCHANGED storeVars

\* variant of StreamFails: the done event is sent on the way out
StreamFailsSendsDone ==
    /\ pc = "stream"
    /\ pc' = "crashed"
    /\ error' = "generation"
    /\ events' = Append(events, DoneEvent)
    /\ UNCHANGED <<endpoint, connected, inbox, sends, collection, history, message,
                   mode, relevant_docs, messages, full_response, stream, pulled, calls,
                   received, histAtStart>>
    /\ UNCHANGED storeVars

\* variant of StreamFails: the exception is caught inside the loop and the
\* handler waits for the next message
StreamFailsBackToReceive ==
    /\ pc = "stream"
    /\ pc' = IF endpoint = "ws" THEN "receive" ELSE "crashed"
    /\ error' = "generation"
    /\ UNCHANGED <<endpoint, connected, inbox, sends, collection, history, message,
                   mode, relevant_docs, messages, full_response, events, stream, pulled, calls,
                   received, histAtStart>>
    /\ UNCHANGED storeVars

\* the stream raises (model unreachable, timeout): nothing catches it
StreamFails ==
    /\ pc = "stream"
    /\ pc' = "crashed"
    /\ error' = "generation"
    /\ UNCHANGED <<endpoint, connected, inbox, sends, collection, history, message,
                   mode, relevant_docs, messages, full_response, events, stream, pulled, calls,
                   received, histAtStart>>
    /\ UNCHANGED storeVars

\* variant of StreamEnd: the history is updated before the done event is sent
StreamEndCommitsFirst ==
    /\ pc = "stream"
    /\ stream = <<>>
    /\ Send(DoneEvent, IF endpoint = "ws" THEN "receive" ELSE "finished")
    /\ history' = IF endpoint = "ws"
                  THEN history \o <<[role |-> "user", content |-> message],
                                    [role |-> "assistant", content |-> full_response]>>
                  ELSE history
    /\ UNCHANGED <<endpoint, connected, inbox, sends, collection, message, mode,
                   relevant_docs, messages, full_response, stream, pulled, calls,
                   received, histAtStart, error>>
    /\ UNCHANGED storeVars

\* the stream is exhausted: the done event is sent
StreamEnd ==
    /\ pc = "stream"
    /\ stream = <<>>
    /\ Send(DoneEvent, IF endpoint = "ws" THEN "commit" ELSE "finished")
    /\ UNCHANGED <<endpoint, connected, inbox, sends, collection, history, message,
                   mode, relevant_docs, messages, full_response, stream, pulled, calls,
                   received, histAtStart, error>>
    /\ UNCHANGED storeVars

\* variant of Committed: only the user turn is appended
CommittedUserOnly(hist, msg, resp) == hist \o <<[role |-> "user", content |-> msg]>>

\* the two history.append calls
Committed(hist, msg, resp) ==
    hist \o <<[role |-> "user", content |-> msg],
              [role |-> "assistant", content |-> resp]>>

\* websocket_chat, lines 420-424: update the history, go back to receive_json
Commit ==
    /\ pc = "commit"
    /\ history' = Committed(history, message, full_response)
    /\ pc' = "receive"
    /\ UNCHANGED <<endpoint, connected, inbox, sends, collection, message, mode,
                   relevant_docs, messages, full_response, events, stream, pulled, calls,
                   received, histAtStart, error>>
    /\ UNCHANGED storeVars
Next ==
    \/ WsConnect
    \/ \E m \in SseMessages : SseRequest(m)
    \/ \E req \in Requests : ClientSend(req)
    \/ ClientDisconnect
    \/ Receive
    \/ ReceiveDisconnect
    \/ SearchOk
    \/ EmbedFails
    \/ QueryFails
    \/ SendSources
    \/ StartChat
    \/ NextChunk
    \/ StreamFails
    \/ StreamEnd
    \/ Commit

Spec == Init /\ [][Next]_vars

----------------------------------------------------------------------------
(* Vocabulary of the properties *)

EventsOf(n) == SelectSeq(events, LAMBDA e : e.turn = n)

TokensOf(n) ==
    LET es == SelectSeq(events, LAMBDA e : e.turn = n /\ e.type = "token")
    IN [i \in 1..Len(es) |-> es[i].data]

Count(n, type) == Len(SelectSeq(events, LAMBDA e : e.turn = n /\ e.type = type))

DoneSent(n) == Count(n, "done") > 0

IsPrefix(s, t) == Len(s) <= Len(t) /\ SubSeq(t, 1, Len(s)) = s

\* turn n ran to its end: on the WebSocket its done event went out and the
\* history update that follows it has run; on the SSE stream generate() returned
TurnCompleted(n) ==
    /\ n \in 1..Turn
    /\ IF endpoint = "ws"
       THEN DoneSent(n) /\ ~(n = Turn /\ pc = "commit")
       ELSE pc = "finished"

\* the current WebSocket turn was left before its done event went out
TurnAborted ==
    /\ endpoint = "ws"
    /\ Turn >= 1
    /\ pc \in {"closed", "crashed"}
    /\ ~DoneSent(Turn)

----------------------------------------------------------------------------
(* C1: the events of every completed rag-mode turn, on the WebSocket and on *)
(* the SSE stream, are one sources event (also when nothing matched), then  *)
(* token events only, then one done event as the last event of the turn.    *)

SourcesTokensDone ==
    \A n \in 1..Turn :
        (TurnCompleted(n) /\ received[n].mode = "rag") =>
            LET es == EventsOf(n)
            IN /\ Len(es) >= 2
               /\ es[1].type = "sources"
               /\ es[Len(es)].type = "done"
               /\ \A i \in 2..(Len(es) - 1) : es[i].type = "token"
               /\ Count(n, "sources") = 1
               /\ Count(n, "done") = 1

\* a completed WebSocket rag turn with an empty match list and two tokens
SourcesTokensDoneWitness ==
    /\ endpoint = "ws"
    /\ TurnCompleted(1)
    /\ received[1].mode = "rag"
    /\ EventsOf(1)[1].data = <<>>
    /\ Count(1, "token") = 2

----------------------------------------------------------------------------
(* C2: a completed WebSocket turn leaves history longer by exactly two      *)
(* entries, the user turn with the inbound message and the assistant turn   *)
(* whose content is the concatenation of the turn's token events in order.  *)

HistoryGrowsByTurn ==
    endpoint = "ws" =>
        \A n \in 1..Turn :
            TurnCompleted(n) =>
                /\ Len(history) >= 2 * n
                /\ history[2 * n - 1] = [role |-> "user", content |-> received[n].message]
                /\ history[2 * n] = [role |-> "assistant", content |-> Concat(TokensOf(n))]
                /\ n = Turn => /\ Len(history) = Len(histAtStart) + 2
                               /\ IsPrefix(histAtStart, history)

\* a completed turn whose answer was streamed as "ba" then "a", after a chunk
\* with empty content
HistoryGrowsByTurnWitness ==
    /\ endpoint = "ws"
    /\ TurnCompleted(Turn)
    /\ Turn = 2
    /\ TokensOf(2) = << <<"b", "a">>, <<"a">> >>

----------------------------------------------------------------------------
(* C3: when a WebSocket turn is aborted (disconnect, retrieval failure or   *)
(* generation failure, also after tokens went out) history is what it was   *)
(* when the turn started.                                                   *)

AbortKeepsHistory ==
    TurnAborted => history = histAtStart /\ Len(history) = 2 * (Turn - 1)

\* the second turn fails in generation after a token went out
AbortKeepsHistoryWitness ==
    /\ TurnAborted
    /\ Turn = 2
    /\ error = "generation"
    /\ full_response # <<>>
    /\ Count(2, "token") > 0

\* the second turn is cut by a disconnect seen while sending
AbortByDisconnectWitness ==
    /\ TurnAborted
    /\ Turn = 2
    /\ pc = "closed"
    /\ full_response # <<>>

----------------------------------------------------------------------------
(* C4, as stated: in any state in which the done event of turn n has been   *)
(* sent, history already holds the user and assistant entries of turn n.    *)

HasTurnEntries(n) ==
    /\ Len(history) >= 2 * n
    /\ history[2 * n - 1] = [role |-> "user", content |-> received[n].message]
    /\ history[2 * n].role = "assistant"

CommitBeforeDone ==
    endpoint = "ws" => \A n \in 1..Turn : DoneSent(n) => HasTurnEntries(n)

(* C4, amended: the done event of a turn is sent first, with history still  *)
(* as it was at the start of the turn; the user and assistant entries are   *)
(* appended by the handler's next step, before it receives another message, *)
(* and are there in every later state.                                      *)

DoneBeforeCommit ==
    /\ [](endpoint = "ws" =>
            \A n \in 1..Turn :
                DoneSent(n) => \/ n = Turn /\ pc = "commit"
                               \/ HasTurnEntries(n))
    /\ [][(endpoint = "ws" /\ Len(events') > Len(events)
              /\ events'[Len(events')].type = "done")
            => /\ history' = history
               /\ Len(history) = 2 * (Turn - 1)
               /\ pc' = "commit"]_vars

\* the done event of the second turn is out and its entries are not yet appended
DoneBeforeCommitWitness ==
    /\ endpoint = "ws"
    /\ Turn = 2
    /\ DoneSent(2)
    /\ pc = "commit"
    /\ Len(history) = 2

----------------------------------------------------------------------------
(* C5: in every state history is a sequence of (user, assistant) pairs:     *)
(* even length, roles alternating from user, never a user entry without its *)
(* assistant entry; and no step changes or removes an entry already there.  *)

PairedHistory ==
    /\ Len(history) % 2 = 0
    /\ \A i \in 1..Len(history) :
           history[i].role = IF i % 2 = 1 THEN "user" ELSE "assistant"

HistoryOfPairs == []PairedHistory /\ [][IsPrefix(history, history')]_vars

\* a second turn is streaming on top of a committed first turn
HistoryOfPairsWitness ==
    /\ endpoint = "ws"
    /\ Len(history) = 2
    /\ Turn = 2
    /\ pc = "stream"
    /\ full_response # <<>>

----------------------------------------------------------------------------
(* C6: while a turn of the session is in flight no inbound message is taken *)
(* from the connection and no new turn starts; the events of the turns do   *)
(* not interleave; history changes only in the commit of the turn in flight.*)

InFlight == pc \in {"search", "sources", "chat", "stream", "commit"}

EventsInTurnOrder ==
    \A i, j \in 1..Len(events) : i < j => events[i].turn <= events[j].turn

SingleFlight ==
    /\ []EventsInTurnOrder
    /\ [][(endpoint = "ws" /\ InFlight) =>
              /\ received' = received
              /\ IsPrefix(inbox, inbox')
              /\ history' # history => pc = "commit"]_vars

\* a message is waiting while the first turn streams
SingleFlightWitness ==
    /\ endpoint = "ws"
    /\ pc = "stream"
    /\ Turn = 1
    /\ inbox # <<>>
    /\ full_response # <<>>

----------------------------------------------------------------------------
(* C7, as stated: unless the turn is cancelled, the token events of a turn  *)
(* are the chunks the gateway produced, none dropped.                       *)

GenerationRunning == pc \in {"stream", "commit", "finished"}

EveryChunkForwarded == GenerationRunning => TokensOf(Turn) = pulled

(* C7, amended: unless the turn is cancelled, the token events of a turn    *)
(* are the chunks with non-empty content the gateway produced, each as its  *)
(* own event and in the order produced; a chunk with empty content is       *)
(* skipped.                                                                 *)

NonEmptyChunksForwarded ==
    GenerationRunning => TokensOf(Turn) = SelectSeq(pulled, LAMBDA c : c # <<>>)

\* an SSE stream ran to its end over three chunks, one of them empty
NonEmptyChunksForwardedWitness ==
    /\ endpoint = "sse"
    /\ pc = "finished"
    /\ Len(pulled) = 3
    /\ Count(1, "token") = 2

----------------------------------------------------------------------------
(* C8: the message list handed to the gateway in turn n of a WebSocket      *)
(* session is the system prompt, then for every earlier turn the message as *)
(* received and the answer as streamed, then one user message made from the *)
(* current mode, matches and query.                                         *)

EarlierTurns ==
    [i \in 1..(2 * (Turn - 1)) |->
        IF i % 2 = 1
        THEN [role |-> "user", content |-> received[(i + 1) \div 2].message]
        ELSE [role |-> "assistant", content |-> Concat(TokensOf(i \div 2))]]

FinalUserMessage ==
    [role |-> "user",
     content |-> IF received[Turn].mode = "rag"
                 THEN WsRagPrompt(relevant_docs, received[Turn].message)
                 ELSE received[Turn].message]

MessagesFromHistory ==
    (endpoint = "ws" /\ pc \in {"stream", "commit"}) =>
        messages = <<[role |-> "system", content |-> SYSTEM_PROMPT]>>
                     \o EarlierTurns \o <<FinalUserMessage>>

\* the second of two rag turns, with matches, is streaming
MessagesFromHistoryWitness ==
    /\ endpoint = "ws"
    /\ pc = "stream"
    /\ Turn = 2
    /\ received[1].mode = "rag"
    /\ received[2].mode = "rag"
    /\ relevant_docs # <<>>
    /\ Len(messages) = 4
    /\ messages[3].content # <<>>

----------------------------------------------------------------------------
(* C9: when the embedding call or the store query of a turn raises, the     *)
(* handler is left at once: ollama.chat is not called for that turn and no  *)
(* sources, token or done event of that turn is sent.                       *)

RetrievalFailureStopsTurn ==
    error \in {"embedding", "query"} =>
        /\ pc = "crashed"
        /\ calls.chat = 0
        /\ EventsOf(Turn) = <<>>

\* the store query of the second turn raised
RetrievalFailureStopsTurnWitness ==
    /\ error = "query"
    /\ Turn = 2
    /\ events # <<>>

----------------------------------------------------------------------------
(* C10: when a retrieval or generation failure aborts a turn on a           *)
(* connection that is still open, exactly one error signal of that turn is  *)
(* sent to the client and the failed call is not made again.                *)

OneErrorSignal ==
    (error \in {"embedding", "query", "generation"} /\ connected) =>
        /\ Count(Turn, "error") = 1
        /\ calls.embed <= 1 /\ calls.query <= 1 /\ calls.chat <= 1

----------------------------------------------------------------------------
(* C11: once the client has closed the connection in the middle of a turn,  *)
(* the generation stream is not read any further: no chunk is pulled from   *)
(* the gateway after the close, and no partial assistant turn is recorded.  *)

NoPullAfterClose ==
    [][(endpoint # "none" /\ ~connected) =>
           /\ Len(pulled') <= Len(pulled)
           /\ history' = history]_vars

----------------------------------------------------------------------------
(* C12: a WebSocket message whose message field is missing or empty is      *)
(* rejected: no embedding, store or generation call is made for it, no      *)
(* event is sent for it and history stays as it was.                        *)

EmptyMessageRejected ==
    (endpoint = "ws" /\ Turn >= 1 /\ received[Turn].message = <<>>) =>
        /\ calls = NoCalls
        /\ EventsOf(Turn) = <<>>
        /\ history = histAtStart

----------------------------------------------------------------------------
(* C13: a direct-mode WebSocket turn makes no embedding call and no store   *)
(* query, sends no sources event, goes from receive straight to building    *)
(* the messages, and its final user message is the query as received.       *)

DirectTurn == endpoint = "ws" /\ Turn >= 1 /\ received[Turn].mode = "direct"

DirectModeSkipsRetrieval ==
    DirectTurn =>
        /\ calls.embed = 0
        /\ calls.query = 0
        /\ Count(Turn, "sources") = 0
        /\ pc \notin {"search", "sources"}
        /\ pc \in {"stream", "commit"} =>
               messages[Len(messages)] =
                   [role |-> "user", content |-> received[Turn].message]

\* a direct turn streams after a rag turn that left matches behind
DirectModeSkipsRetrievalWitness ==
    /\ DirectTurn
    /\ Turn = 2
    /\ pc = "stream"
    /\ relevant_docs # <<>>
    /\ full_response # <<>>

----------------------------------------------------------------------------
(* C18: for every content of the store and every k from 1 up, the search    *)
(* gives at most k matches, as many as the store can give, in the order the *)
(* store ranked them, which is by non-decreasing distance; on an empty      *)
(* store the search succeeds with an empty list.                            *)

Ranked(docs) == \A i, j \in 1..Len(docs) : i < j => docs[i].score <= docs[j].score

SearchResultsRanked ==
    /\ pc = "search" =>
           /\ ENABLED SearchOk
           /\ \A k \in 1..MaxK :
                  /\ Rankings(collection, Embed(message), k) # {}
                  /\ \A r \in Rankings(collection, Embed(message), k) :
                         LET docs == FormatResults(collection, Embed(message), r)
                         IN /\ Len(docs) = Min(k, Len(collection))
                            /\ Ranked(docs)
                            /\ \A i \in 1..Len(docs) : docs[i].id = collection[r[i]].id
    /\ pc = "sources" =>
           /\ Len(relevant_docs) = Min(N_RESULTS, Len(collection))
           /\ Ranked(relevant_docs)

\* three of four stored documents were returned, at different distances
SearchResultsRankedWitness ==
    /\ pc = "sources"
    /\ Len(collection) = 4
    /\ Len(relevant_docs) = 3
    /\ relevant_docs[1].score < relevant_docs[3].score

\* the search on an empty store returned an empty list
SearchEmptyStoreWitness ==
    /\ pc = "sources"
    /\ collection = <<>>
    /\ relevant_docs = <<>>

----------------------------------------------------------------------------
(* C20: a done event goes out only in the step that finds the generation    *)
(* stream exhausted; a turn left by a retrieval failure, a generation       *)
(* failure or a disconnect has no done event, on both endpoints.            *)

LeftByDisconnect ==
    /\ pc = "closed"
    /\ Turn >= 1
    /\ endpoint = "sse" \/ Len(history) < 2 * Turn

LeftByFailure == error \in {"embedding", "query", "generation"}

DoneOnlyAtStreamEnd ==
    /\ []((LeftByFailure \/ LeftByDisconnect) => ~DoneSent(Turn))
    /\ [][(Len(events') > Len(events) /\ events'[Len(events')].type = "done") =>
              /\ pc = "stream"
              /\ stream = <<>>
              /\ connected
              /\ error' = "none"]_vars

\* an SSE stream failed in generation after a token went out
DoneOnlyAtStreamEndWitness ==
    /\ endpoint = "sse"
    /\ error = "generation"
    /\ Count(1, "token") > 0

----------------------------------------------------------------------------
(* The /documents handlers: add_document, list_documents, seed_documents    *)
(* and clear_documents.  Requests arrive at any time; a handler runs on the *)
(* event loop and gives it up only when it awaits or returns.               *)

MaxRequests == 3

SAMPLE_DOCS ==
    << [content |-> <<"profile">>, source |-> "yoseph-profile.md"],
       [content |-> <<"julo-lead">>, source |-> "yoseph-julo-experience.md"],
       [content |-> <<"julo-engineer">>, source |-> "yoseph-julo-engineer.md"],
       [content |-> <<"previous">>, source |-> "yoseph-previous-experience.md"],
       [content |-> <<"education">>, source |-> "yoseph-education-skills.md"],
       [content |-> <<"sya">>, source |-> "sya-identity.md"] >>

\* the bodies a client may post to /documents
DocumentRequests ==
    { [content |-> <<"q">>, source |-> "a.md"],
      [content |-> <<"r", "r">>, source |-> "e.md"] }

NoDocument == [content |-> <<>>, source |-> ""]

NewRequest(op, doc) ==
    [op |-> op, content |-> doc.content, source |-> doc.source, pc |-> "start",
     i |-> 1, data |-> <<>>, status |-> 0, body |-> [pending |-> TRUE],
     before |-> <<>>, after |-> <<>>, removed |-> 0, midwrite |-> FALSE]

\* str(uuid.uuid4()): an id that was not drawn before
NewId(n) == ToString(n + 1)

Ids(coll) == [i \in 1..Len(coll) |-> coll[i].id]

\* the documents list of GET /documents
Listing(coll) ==
    [i \in 1..Len(coll) |->
        [id |-> coll[i].id, content |-> coll[i].content, source |-> coll[i].source]]

\* variant of HandlerYields: the store calls are awaited, other handlers run
\* in between
HandlerYieldsAtCalls == TRUE

\* the handlers are `async def` without a single await: none gives up the
\* event loop before it returns
HandlerYields == FALSE

Runs(r) ==
    /\ r \in 1..Len(docreqs)
    /\ docreqs[r].pc # "done"
    /\ loop \in {0, r}

\* the store as it was when the handler of request r was entered
Entered(r) == IF docreqs[r].pc = "start" THEN collection ELSE docreqs[r].before

\* another handler is between two of its store calls
MidWrite(r) ==
    \E o \in 1..Len(docreqs) : o # r /\ docreqs[o].pc \notin {"start", "done"}

InternalError == [detail |-> "Internal Server Error"]

\* a request reaches the server
DocArrive(op, doc) ==
    /\ Len(docreqs) < MaxRequests
    /\ docreqs' = Append(docreqs, NewRequest(op, doc))
    /\ UNCHANGED <<chatVars, collection, loop, uuids, sess>>

\* add_document: id, embedding and collection.add all succeed
AddDocument(r) ==
    /\ Runs(r)
    /\ docreqs[r].op = "add"
    /\ uuids' = uuids + 1
    /\ collection' = Append(collection,
                            Doc(NewId(uuids), docreqs[r].content, docreqs[r].source))
    /\ docreqs' = [docreqs EXCEPT ![r] =
           [@ EXCEPT !.pc = "done", !.status = 200,
                     !.body = [success |-> TRUE, id |-> NewId(uuids)],
                     !.before = collection, !.after = collection']]
    /\ loop' = 0
    /\ UNCHANGED <<chatVars, sess>>

\* variant of AddEmbedFails: the record was written before the embedding call
AddEmbedFailsAfterInsert(r) ==
    /\ Runs(r)
    /\ docreqs[r].op = "add"
    /\ uuids' = uuids + 1
    /\ collection' = Append(collection,
                            [id |-> NewId(uuids), content |-> docreqs[r].content,
                             source |-> docreqs[r].source, embedding |-> -1])
    /\ docreqs' = [docreqs EXCEPT ![r] =
           [@ EXCEPT !.pc = "done", !.status = 500, !.body = InternalError,
                     !.before = collection, !.after = collection']]
    /\ loop' = 0
    /\ UNCHANGED <<chatVars, sess>>

\* add_document: create_embedding raises, before collection.add is reached
AddEmbedFails(r) ==
    /\ Runs(r)
    /\ docreqs[r].op = "add"
    /\ uuids' = uuids + 1
    /\ docreqs' = [docreqs EXCEPT ![r] =
           [@ EXCEPT !.pc = "done", !.status = 500, !.body = InternalError,
                     !.before = collection, !.after = collection]]
    /\ loop' = 0
    /\ UNCHANGED <<chatVars, collection, sess>>

\* add_document: collection.add raises and writes nothing
AddInsertFails(r) ==
    /\ Runs(r)
    /\ docreqs[r].op = "add"
    /\ uuids' = uuids + 1
    /\ docreqs' = [docreqs EXCEPT ![r] =
           [@ EXCEPT !.pc = "done", !.status = 500, !.body = InternalError,
                     !.before = collection, !.after = collection]]
    /\ loop' = 0
    /\ UNCHANGED <<chatVars, collection, sess>>

\* list_documents
ListDocuments(r) ==
    /\ Runs(r)
    /\ docreqs[r].op = "list"
    /\ docreqs' = [docreqs EXCEPT ![r] =
           [@ EXCEPT !.pc = "done", !.status = 200,
                     !.body = [count |-> Len(Ids(collection)),
                               documents |-> Listing(collection)],
                     !.before = collection, !.after = collection,
                     !.midwrite = MidWrite(r)]]
    /\ loop' = 0
    /\ UNCHANGED <<chatVars, collection, uuids, sess>>

\* seed_documents: one round of the loop over SAMPLE_DOCS, and the return
\* after the last one
SeedAdd(r) ==
    /\ Runs(r)
    /\ docreqs[r].op = "seed"
    /\ uuids' = uuids + 1
    /\ collection' = Append(collection,
                            Doc(NewId(uuids), SAMPLE_DOCS[docreqs[r].i].content,
                                SAMPLE_DOCS[docreqs[r].i].source))
    /\ IF docreqs[r].i = Len(SAMPLE_DOCS)
       THEN /\ docreqs' = [docreqs EXCEPT ![r] =
                   [@ EXCEPT !.pc = "done", !.status = 200,
                             !.body = [success |-> TRUE, added |-> Len(SAMPLE_DOCS)],
                             !.before = Entered(r), !.after = collection']]
            /\ loop' = 0
       ELSE /\ docreqs' = [docreqs EXCEPT ![r] =
                   [@ EXCEPT !.pc = "loop", !.i = @ + 1, !.before = Entered(r)]]
            /\ loop' = IF HandlerYields THEN 0 ELSE r
    /\ UNCHANGED <<chatVars, sess>>

\* seed_documents: create_embedding or collection.add raises for the i-th
\* sample document
SeedFails(r) ==
    /\ Runs(r)
    /\ docreqs[r].op = "seed"
    /\ uuids' = uuids + 1
    /\ docreqs' = [docreqs EXCEPT ![r] =
           [@ EXCEPT !.pc = "done", !.status = 500, !.body = InternalError,
                     !.before = Entered(r), !.after = collection]]
    /\ loop' = 0
    /\ UNCHANGED <<chatVars, collection, sess>>

\* variant of DeletedCount: the ids are counted again after the delete
DeletedCountAfterDelete(data) == 0

\* len(data["ids"]) in the response of clear_documents
DeletedCount(data) == Len(data)

\* clear_documents: collection.get(), and the return when nothing is stored
ClearGet(r) ==
    /\ Runs(r)
    /\ docreqs[r].op = "clear"
    /\ docreqs[r].pc = "start"
    /\ IF Len(Ids(collection)) > 0
       THEN /\ docreqs' = [docreqs EXCEPT ![r] =
                   [@ EXCEPT !.pc = "delete", !.data = Ids(collection),
                             !.before = collection]]
            /\ loop' = IF HandlerYields THEN 0 ELSE r
       ELSE /\ docreqs' = [docreqs EXCEPT ![r] =
                   [@ EXCEPT !.pc = "done", !.status = 200,
                             !.body = [success |-> TRUE,
                                       deleted |-> DeletedCount(Ids(collection))],
                             !.before = collection, !.after = collection]]
            /\ loop' = 0
    /\ UNCHANGED <<chatVars, collection, uuids, sess>>

\* clear_documents: collection.delete(ids=data["ids"]) and the return
ClearDelete(r) ==
    /\ Runs(r)
    /\ docreqs[r].op = "clear"
    /\ docreqs[r].pc = "delete"
    /\ collection' = SelectSeq(collection,
                               LAMBDA d : \A k \in 1..Len(docreqs[r].data) :
                                              docreqs[r].data[k] # d.id)
    /\ docreqs' = [docreqs EXCEPT ![r] =
           [@ EXCEPT !.pc = "done", !.status = 200,
                     !.body = [success |-> TRUE,
                               deleted |-> DeletedCount(docreqs[r].data)],
                     !.after = collection',
                     !.removed = Len(collection) - Len(collection')]]
    /\ loop' = 0
    /\ UNCHANGED <<chatVars, uuids, sess>>

\* clear_documents: collection.delete raises and removes nothing
ClearDeleteFails(r) ==
    /\ Runs(r)
    /\ docreqs[r].op = "clear"
    /\ docreqs[r].pc = "delete"
    /\ docreqs' = [docreqs EXCEPT ![r] =
           [@ EXCEPT !.pc = "done", !.status = 500, !.body = InternalError,
                     !.after = collection]]
    /\ loop' = 0
    /\ UNCHANGED <<chatVars, collection, uuids, sess>>

NextStore ==
    \/ \E doc \in DocumentRequests : DocArrive("add", doc)
    \/ DocArrive("list", NoDocument)
    \/ DocArrive("seed", NoDocument)
    \/ DocArrive("clear", NoDocument)
    \/ \E r \in 1..MaxRequests : AddDocument(r)
    \/ \E r \in 1..MaxRequests : AddEmbedFails(r)
    \/ \E r \in 1..MaxRequests : AddInsertFails(r)
    \/ \E r \in 1..MaxRequests : ListDocuments(r)
    \/ \E r \in 1..MaxRequests : SeedAdd(r)
    \/ \E r \in 1..MaxRequests : SeedFails(r)
    \/ \E r \in 1..MaxRequests : ClearGet(r)
    \/ \E r \in 1..MaxRequests : ClearDelete(r)
    \/ \E r \in 1..MaxRequests : ClearDeleteFails(r)

\* chromadb.Client() keeps the collection in memory: a process starts with none
\* and creates it empty
InitStore == Init /\ collection = <<>>

SpecStore == InitStore /\ [][NextStore]_vars

----------------------------------------------------------------------------
(* Vocabulary of the /documents properties *)

Finished(op) == { r \in 1..Len(docreqs) : docreqs[r].op = op /\ docreqs[r].pc = "done" }

Succeeded(op) == { r \in Finished(op) : docreqs[r].status = 200 }

Failed(op) == { r \in Finished(op) : docreqs[r].status = 500 }

----------------------------------------------------------------------------
(* C14: an add writes one record (id, embedding, content, source) or        *)
(* nothing: after a failed add the store holds exactly what it held before, *)
(* after a successful one exactly one record more, and every stored record  *)
(* carries the embedding of its content.                                    *)

AddAllOrNothing ==
    /\ \A r \in Failed("add") : docreqs[r].after = docreqs[r].before
    /\ \A r \in Succeeded("add") :
           docreqs[r].after =
               Append(docreqs[r].before,
                      [id |-> docreqs[r].body.id, content |-> docreqs[r].content,
                       source |-> docreqs[r].source,
                       embedding |-> Embed(docreqs[r].content)])
    /\ \A i \in 1..Len(collection) :
           collection[i].embedding = Embed(collection[i].content)

\* an add failed on a store that already held a document
AddAllOrNothingWitness ==
    \E r \in Failed("add") : docreqs[r].before # <<>> /\ collection # <<>>

----------------------------------------------------------------------------
(* C15: the ids returned by successful adds are pairwise different and new  *)
(* to the store, and the added document is listed with its id, content and  *)
(* source; a deleteAll returns the number of records the store held and     *)
(* leaves the listing empty with count 0; a list returns the listing of the *)
(* store with its length as count.                                          *)

AddListDeleteAll ==
    /\ \A r \in Succeeded("add") :
           /\ \A o \in Succeeded("add") : o # r => docreqs[o].body.id # docreqs[r].body.id
           /\ \A i \in 1..Len(docreqs[r].before) :
                  docreqs[r].before[i].id # docreqs[r].body.id
           /\ \E i \in 1..Len(docreqs[r].after) :
                  Listing(docreqs[r].after)[i] =
                      [id |-> docreqs[r].body.id, content |-> docreqs[r].content,
                       source |-> docreqs[r].source]
    /\ \A i, j \in 1..Len(collection) : i # j => collection[i].id # collection[j].id
    /\ \A r \in Succeeded("clear") :
           /\ docreqs[r].body.deleted = Len(docreqs[r].before)
           /\ Listing(docreqs[r].after) = <<>>
    /\ \A r \in Succeeded("list") :
           /\ docreqs[r].body.documents = Listing(docreqs[r].after)
           /\ docreqs[r].body.count = Len(docreqs[r].after)

\* two adds, then a deleteAll that removed both records
AddListDeleteAllWitness ==
    /\ Cardinality(Succeeded("add")) = 2
    /\ \E r \in Succeeded("clear") : docreqs[r].body.deleted = 2
    /\ collection = <<>>

\* a deleteAll on an empty store returned 0
DeleteAllEmptyWitness ==
    \E r \in Succeeded("clear") : docreqs[r].body.deleted = 0 /\ docreqs[r].before = <<>>

----------------------------------------------------------------------------
(* C16: a seeding that fails at its i-th document leaves the i-1 documents  *)
(* it added in the store and reports that partial result to the caller; a   *)
(* seeding that succeeds reports the number of records it inserted.         *)

Inserted(r) == Len(docreqs[r].after) - Len(docreqs[r].before)

SeedReportsResult ==
    \A r \in Finished("seed") :
        /\ IsPrefix(docreqs[r].before, docreqs[r].after)
        /\ "added" \in DOMAIN docreqs[r].body
        /\ docreqs[r].body.added = Inserted(r)

----------------------------------------------------------------------------
(* C17: the /documents handlers run one at a time: at most one of them is   *)
(* between two of its store calls, no list is answered while another        *)
(* handler is in the middle of its writes, and a deleteAll reports the      *)
(* number of records it removed.                                            *)

Running == { r \in 1..Len(docreqs) : docreqs[r].pc \notin {"start", "done"} }

StoreOpsSerialized ==
    /\ Cardinality(Running) <= 1
    /\ \A r \in Running : loop = r
    /\ \A r \in Finished("list") : ~docreqs[r].midwrite
    /\ \A r \in Succeeded("clear") :
           /\ docreqs[r].body.deleted = docreqs[r].removed
           /\ docreqs[r].after = <<>>

\* a list and an add are waiting while a seeding is in its loop
StoreOpsSerializedWitness ==
    /\ \E r \in Running : docreqs[r].op = "seed" /\ docreqs[r].i = 3
    /\ \E r \in 1..Len(docreqs) : docreqs[r].op = "list" /\ docreqs[r].pc = "start"
    /\ \E r \in 1..Len(docreqs) : docreqs[r].op = "add" /\ docreqs[r].pc = "start"

----------------------------------------------------------------------------
(* Concurrent WebSocket sessions: one websocket_chat call per connection,   *)
(* interleaved at its awaits (receive_json, send_json); sess[c] holds the    *)
(* locals of the call that serves connection c.                             *)

MaxTurns == 3

\* the well-formed turn requests
TurnRequests == { req \in Requests : "mode" \in DOMAIN req /\ Get(req, "message", <<>>) # <<>> }

RECURSIVE TurnsOf(_)
TurnsOf(cs) ==
    IF cs = {} THEN 0
    ELSE LET c == CHOOSE x \in cs : TRUE IN sess[c].turns + TurnsOf(cs \ {c})

\* variant of HistoryOf: one history list at module level
HistoryOfModule(c) == "c1"

\* history is a local of the handler call: one list per connection
HistoryOf(c) == c

\* await websocket.accept(); history = []
SessAccept(c) ==
    /\ sess[c].pc = "none"
    /\ sess' = [[sess EXCEPT ![HistoryOf(c)].history = <<>>] EXCEPT ![c].pc = "receive"]
    /\ UNCHANGED <<chatVars, collection, docreqs, loop, uuids>>

\* data = await websocket.receive_json(); message and mode are read from it
SessReceive(c, req) ==
    /\ sess[c].pc = "receive"
    /\ TurnsOf(Connections) < MaxTurns
    /\ sess' = [sess EXCEPT ![c] =
           [@ EXCEPT !.pc = "prompt", !.message = Get(req, "message", <<>>),
                     !.mode = Get(req, "mode", "rag"), !.turns = @ + 1]]
    /\ UNCHANGED <<chatVars, collection, docreqs, loop, uuids>>

\* retrieval in rag mode, then the messages list: system prompt, the
\* conversation history, the prompt of this turn; the chat stream is opened
SessPrompt(c) ==
    /\ sess[c].pc = "prompt"
    /\ \E r \in Rankings(collection, Embed(sess[c].message), N_RESULTS), s \in Streams :
         LET docs == IF sess[c].mode = "rag"
                     THEN FormatResults(collection, Embed(sess[c].message), r)
                     ELSE <<>>
         IN sess' = [sess EXCEPT ![c] =
                [@ EXCEPT !.pc = "stream",
                          !.messages = WsMessages(sess[HistoryOf(c)].history,
                                                  WsPrompt(sess[c].mode, docs,
                                                           sess[c].message)),
                          !.full_response = <<>>, !.stream = s]]
    /\ UNCHANGED <<chatVars, collection, docreqs, loop, uuids>>

\* one chunk of the stream: added to full_response and sent on as a token
SessChunk(c) ==
    /\ sess[c].pc = "stream"
    /\ sess[c].stream # <<>>
    /\ sess' = [sess EXCEPT ![c] =
           [@ EXCEPT !.full_response = @ \o Head(sess[c].stream),
                     !.stream = Tail(@)]]
    /\ UNCHANGED <<chatVars, collection, docreqs, loop, uuids>>

\* the stream ended: done is sent, the two history.append calls run, and the
\* handler is back at receive_json
SessCommit(c) ==
    /\ sess[c].pc = "stream"
    /\ sess[c].stream = <<>>
    /\ sess' = [[sess EXCEPT ![HistoryOf(c)].history =
                     Committed(@, sess[c].message, sess[c].full_response)]
                 EXCEPT ![c].pc = "receive"]
    /\ UNCHANGED <<chatVars, collection, docreqs, loop, uuids>>

\* except WebSocketDisconnect: the handler returns and its locals are gone
SessDisconnect(c) ==
    /\ sess[c].pc \in {"receive", "prompt", "stream"}
    /\ sess' = [sess EXCEPT ![c] = [NoSession EXCEPT !.pc = "closed", !.turns = sess[c].turns]]
    /\ UNCHANGED <<chatVars, collection, docreqs, loop, uuids>>

NextSessions ==
    \/ \E c \in Connections : SessAccept(c)
    \/ \E c \in Connections, req \in TurnRequests : SessReceive(c, req)
    \/ \E c \in Connections : SessPrompt(c)
    \/ \E c \in Connections : SessChunk(c)
    \/ \E c \in Connections : SessCommit(c)
    \/ \E c \in Connections : SessDisconnect(c)

SpecSessions == Init /\ [][NextSessions]_vars

----------------------------------------------------------------------------
(* C19: sessions are independent: a step of one session changes the locals  *)
(* of that session only, so never the history of another one; the messages  *)
(* of a running turn carry the history of its own session and nothing of    *)
(* another; and the one thing all sessions read is the document store.      *)

\* the history part of a messages list: without the system prompt and the
\* prompt of the turn
HistoryIn(msgs) == SubSeq(msgs, 2, Len(msgs) - 1)

SessionsIndependent ==
    /\ [](\A c \in Connections :
             sess[c].pc = "stream" => HistoryIn(sess[c].messages) = sess[c].history)
    /\ [][\A c, d \in Connections :
             (c # d /\ sess'[d] # sess[d]) => sess'[c] = sess[c]]_vars
    /\ [][sess' # sess => UNCHANGED <<chatVars, collection, docreqs, loop, uuids>>]_vars

\* both sessions are running a rag turn over the same store; the first has a
\* completed turn in its history, the second has none
SessionsIndependentWitness ==
    /\ sess["c1"].pc = "stream" /\ sess["c2"].pc = "stream"
    /\ sess["c1"].mode = "rag" /\ sess["c2"].mode = "rag"
    /\ collection # <<>>
    /\ Len(sess["c1"].history) = 2
    /\ sess["c2"].history = <<>>
    /\ Len(sess["c1"].messages) = 4 /\ Len(sess["c2"].messages) = 2

----------------------------------------------------------------------------
(* The handler under fair scheduling: the history update after the done     *)
(* event has no await in it, so once the send returned it runs.             *)

FairSpec == Spec /\ WF_vars(Commit)

----------------------------------------------------------------------------
(* C21: an abort ends the whole WebSocket session: once the handler has     *)
(* left its loop (disconnect, or an uncaught retrieval or generation        *)
(* failure) it stays out of it, takes no further request, makes no call,    *)
(* sends no event and its history is never read or extended again; and      *)
(* after the done event of a turn the handler updates the history and is    *)
(* back at receive_json.                                                    *)

SessionEnded == endpoint = "ws" /\ pc \in {"closed", "crashed"}

AbortEndsSession ==
    /\ []((endpoint = "ws" /\ LeftByFailure) => SessionEnded)
    /\ [][SessionEnded =>
              /\ pc' = pc
              /\ received' = received
              /\ inbox' = inbox
              /\ calls' = calls
              /\ events' = events
              /\ pulled' = pulled
              /\ messages' = messages
              /\ history' = history]_vars
    /\ [](SessionEnded => ~ENABLED Receive /\ ~ENABLED Commit)
    /\ [][(endpoint = "ws" /\ DoneSent(Turn) /\ pc' # pc) =>
              /\ pc \in {"commit", "receive"}
              /\ pc = "commit" => pc' = "receive"
              /\ pc = "receive" => pc' \in {"search", "chat", "closed", "crashed"}]_vars
    /\ (endpoint = "ws" /\ pc = "commit") ~> (pc = "receive")

\* the first turn was completed and the session went back to waiting; the
\* second failed in generation after a token went out
AbortEndsSessionWitness ==
    /\ SessionEnded
    /\ error = "generation"
    /\ Turn = 2
    /\ TurnCompleted(1)
    /\ Count(2, "token") > 0

\* the session ended while a further request was waiting unread
UnreadRequestWitness ==
    /\ SessionEnded
    /\ Turn = 1
    /\ inbox # <<>>

\* the session was ended by a disconnect seen at receive_json, between turns
AbortAtIdleWitness ==
    /\ SessionEnded
    /\ pc = "closed"
    /\ Turn = 1
    /\ TurnCompleted(1)

====
